---- MODULE Spec2Model ----
(***************************************************************************)
(* Model of process_data.py: the single-pass aggregation of real-estate    *)
(* transaction rows into per-agent and per-company statistics.             *)
(*                                                                         *)
(* Text is modelled as a sequence of one-character strings, so that        *)
(* lower(), strip(), re.sub, the strptime formats and the f-string that    *)
(* builds the de-duplication key are computed character by character.      *)
(* A Python dict (insertion ordered) is a record [order, val]: the keys in *)
(* insertion order and the mapping itself.                                 *)
(***************************************************************************)
EXTENDS Integers, Sequences, FiniteSets, TLC

\* Longest input file (number of data rows) that is explored.
MaxRows == 2

----------------------------------------------------------------------------
\* Characters and text

DigitChars == <<"0", "1", "2", "3", "4", "5", "6", "7", "8", "9">>

IsDigit(c) == \E i \in 1..10 : DigitChars[i] = c

DigitVal(c) == (CHOOSE i \in 1..10 : DigitChars[i] = c) - 1

IsSpace(c) == c = " "

AllDigits(s) == \A i \in 1..Len(s) : IsDigit(s[i])

RECURSIVE ToNat(_)
ToNat(s) ==
    IF s = <<>> THEN 0
    ELSE 10 * ToNat(SubSeq(s, 1, Len(s) - 1)) + DigitVal(s[Len(s)])

\* str.lower() on the alphabet of the inputs: upper-case letters map to
\* their lower-case letter, every other character to itself.
LowerChar(c) ==
    CASE c = "A" -> "a"
      [] c = "B" -> "b"
      [] c = "C" -> "c"
      [] c = "K" -> "k"
      [] c = "M" -> "m"
      [] c = "X" -> "x"
      [] OTHER -> c

Lower(s) == [i \in 1..Len(s) |-> LowerChar(s[i])]

\* str.strip(): whitespace is removed at both ends only.
RECURSIVE Strip(_)
Strip(s) ==
    IF s = <<>> THEN s
    ELSE IF IsSpace(s[1]) THEN Strip(Tail(s))
    ELSE IF IsSpace(s[Len(s)]) THEN Strip(SubSeq(s, 1, Len(s) - 1))
    ELSE s

\* str.split(sep) for a one-character separator.
RECURSIVE Split(_, _)
Split(s, sep) ==
    IF \A i \in 1..Len(s) : s[i] # sep THEN <<s>>
    ELSE LET p == CHOOSE i \in 1..Len(s) :
                    s[i] = sep /\ \A j \in 1..(i - 1) : s[j] # sep
         IN <<SubSeq(s, 1, p - 1)>> \o Split(SubSeq(s, p + 1, Len(s)), sep)

\* Code point of a character, for the characters that occur in the sort keys.
Ord(c) ==
    CASE c = "-" -> 45
      [] IsDigit(c) -> 48 + DigitVal(c)
      [] OTHER -> 0

\* Order of Python tuples and strings: lexicographic, a proper prefix first.
RECURSIVE LexLess(_, _)
LexLess(a, b) ==
    IF b = <<>> THEN FALSE
    ELSE IF a = <<>> THEN TRUE
    ELSE IF a[1] # b[1] THEN a[1] < b[1]
    ELSE LexLess(Tail(a), Tail(b))

RECURSIVE Sum(_)
Sum(s) == IF s = <<>> THEN 0 ELSE s[1] + Sum(Tail(s))

----------------------------------------------------------------------------
\* sorted() / list.sort(): a stable insertion sort on the keys. The result is
\* the sequence of the positions of the input in sorted order.

RECURSIVE SortedPositions(_, _)
SortedPositions(keys, n) ==
    IF n = 0 THEN <<>>
    ELSE LET prev == SortedPositions(keys, n - 1)
             \* the new element goes behind every element that is not greater;
             \* prev is sorted, so these form a prefix of it
             at == Cardinality({p \in 1..(n - 1) : ~LexLess(keys[n], keys[prev[p]])})
         IN SubSeq(prev, 1, at) \o <<n>> \o SubSeq(prev, at + 1, n - 1)

StableSort(items, keys) ==
    LET pos == SortedPositions(keys, Len(items))
    IN [i \in 1..Len(items) |-> items[pos[i]]]

----------------------------------------------------------------------------
\* Python dict with insertion order

EmptyDict == [order |-> <<>>, val |-> <<>>]

DictHas(d, k) == k \in DOMAIN d.val

DictPut(d, k, v) ==
    [order |-> IF DictHas(d, k) THEN d.order ELSE Append(d.order, k),
     val |-> [x \in (DOMAIN d.val) \cup {k} |-> IF x = k THEN v ELSE d.val[x]]]

\* defaultdict.__getitem__: the default when the key is missing.
DictGet(d, k, default) == IF DictHas(d, k) THEN d.val[k] ELSE default

\* dict.items() in iteration order
DictItems(d) == [i \in 1..Len(d.order) |-> <<d.order[i], d.val[d.order[i]]>>]

----------------------------------------------------------------------------
\* Field parsers

\* What clean_price yields when float() raises ValueError.
ValueError == -1

\* The falsy result of parse_date (None; strftime never yields '').
NoDate == <<>>

\* The None of parse_dom; every value it returns otherwise is positive.
NoDom == -1

KeptByPriceRegex(c) == IsDigit(c) \/ c = "."

\* int(float(cleaned)) for a text of digits and points: float() accepts at
\* most one point and needs a digit; int() drops the fraction.
IntOfFloat(cleaned) ==
    LET points == Cardinality({i \in 1..Len(cleaned) : cleaned[i] = "."})
        digits == Cardinality({i \in 1..Len(cleaned) : IsDigit(cleaned[i])})
    IN IF points > 1 \/ digits = 0 THEN ValueError
       ELSE ToNat(Split(cleaned, ".")[1])

clean_price(price_str) ==
    IF price_str = <<>> THEN 0
    ELSE LET cleaned == SelectSeq(price_str, KeptByPriceRegex)
         IN IF cleaned = <<>> THEN 0 ELSE IntOfFloat(cleaned)

IsLeap(y) == (y % 4 = 0 /\ y % 100 # 0) \/ y % 400 = 0

DaysIn(m, y) ==
    IF m = 2 THEN (IF IsLeap(y) THEN 29 ELSE 28)
    ELSE IF m \in {4, 6, 9, 11} THEN 30 ELSE 31

ValidDate(y, m, d) == y >= 1 /\ m \in 1..12 /\ d \in 1..DaysIn(m, y)

Pad(n, width) ==
    [i \in 1..width |-> DigitChars[((n \div (10 ^ (width - i))) % 10) + 1]]

\* strftime('%Y-%m-%d'), for years of four digits
IsoDate(y, m, d) == Pad(y, 4) \o <<"-">> \o Pad(m, 2) \o <<"-">> \o Pad(d, 2)

\* %y: 69..99 are 1969..1999, 00..68 are 2000..2068
CenturyOf(yy) == IF yy >= 69 THEN 1900 + yy ELSE 2000 + yy

\* strptime with one format; the year is 0 when the text does not match.
\* fmt is "mdY" for %m/%d/%Y, "mdy" for %m/%d/%y, "Ymd" for %Y-%m-%d.
StrpYMD(date_str, fmt) ==
    LET parts == Split(date_str, IF fmt = "Ymd" THEN "-" ELSE "/")
        shaped == /\ Len(parts) = 3
                  /\ \A i \in 1..3 : parts[i] # <<>> /\ AllDigits(parts[i])
        yi == IF fmt = "Ymd" THEN 1 ELSE 3
        mi == IF fmt = "Ymd" THEN 2 ELSE 1
        di == IF fmt = "Ymd" THEN 3 ELSE 2
        widths == /\ Len(parts[yi]) = (IF fmt = "mdy" THEN 2 ELSE 4)
                  /\ Len(parts[mi]) \in 1..2
                  /\ Len(parts[di]) \in 1..2
        y == IF fmt = "mdy" THEN CenturyOf(ToNat(parts[yi])) ELSE ToNat(parts[yi])
        m == ToNat(parts[mi])
        d == ToNat(parts[di])
    IN IF shaped /\ widths /\ ValidDate(y, m, d) THEN <<y, m, d>> ELSE <<0, 0, 0>>

DateFormats == <<"mdY", "mdy", "Ymd">>

parse_date(date_str) ==
    IF date_str = <<>> THEN NoDate
    ELSE LET s == Strip(date_str)
             hits == {i \in 1..Len(DateFormats) : StrpYMD(s, DateFormats[i])[1] # 0}
         IN IF hits = {} THEN NoDate
            ELSE LET first == CHOOSE i \in hits : \A j \in hits : i <= j
                     ymd == StrpYMD(s, DateFormats[first])
                 IN IsoDate(ymd[1], ymd[2], ymd[3])

\* int(dom_str): surrounding whitespace and a sign are accepted.
parse_dom(dom_str) ==
    IF dom_str = <<>> THEN NoDom
    ELSE LET s == Strip(dom_str)
             signed == s # <<>> /\ s[1] \in {"-", "+"}
             body == IF signed THEN Tail(s) ELSE s
         IN IF body = <<>> \/ ~AllDigits(body) THEN NoDom
            ELSE LET dom == IF signed /\ s[1] = "-" THEN 0 - ToNat(body) ELSE ToNat(body)
                 IN IF dom > 0 THEN dom ELSE NoDom

----------------------------------------------------------------------------
\* Input rows (csv.DictReader rows: column name -> text)

T_date1 == <<"0", "1", "/", "1", "0", "/", "2", "0", "2", "5">>
T_date2 == <<"1", "2", "/", "3", "1", "/", "2", "4", " ">>
T_date3 == <<"2", "0", "2", "5", "-", "0", "1", "-", "1", "0">>
T_date_bad == <<"n", "/", "a">>

Dates == {<<>>, T_date_bad, T_date1, T_date2, T_date3}

T_price2 == <<"$", "2">>
T_price1_9 == <<"$", "1", ".", "9">>
T_price_bad == <<"1", ".", "2", ".", "3">>

Prices == {<<>>, T_price2, T_price1_9, T_price_bad}

\* <<city, zip>>
T_place == <<<<"p">>, <<"8">>>>

Places == {T_place, <<<<"p", "|">>, <<"8">>>>, <<<<"p">>, <<"|", "8">>>>, <<<<>>, <<>>>>}

T_dom7 == <<"7">>

Doms == {<<>>, <<"-", "3">>, T_dom7, <<"x">>, <<" ", "4">>}

Person(name, first, email, office) ==
    [name |-> name, first |-> first, email |-> email, office |-> office]

\* Ann and Ann2 are one mailbox written two ways; Ann and Bob share an office
\* written two ways; Cy's row has no agent name; Dee's has no office.
NoOne == Person(<<>>, <<>>, <<>>, <<>>)
Ann == Person(<<"A", "n", "n">>, <<"A">>, <<"A", "@", "x">>, <<"K">>)
Ann2 == Person(<<"A", "n">>, <<"A">>, <<" ", "a", "@", "x">>, <<"M">>)
Bob == Person(<<"B", "o", "b">>, <<"B">>, <<"b", "@", "x">>, <<"k", " ">>)
Cy == Person(<<>>, <<>>, <<"c", "@", "x">>, <<"K">>)
Dee == Person(<<"D", "e", "e">>, <<"D">>, <<"d", "@", "x">>, <<>>)

People == {NoOne, Ann, Ann2, Bob, Cy}

Row(date, price, place, dom, lister, seller) ==
    [close_date |-> date, sold_price |-> price, city |-> place[1], zip |-> place[2],
     days_on_market |-> dom,
     listing_agent_name |-> lister.name,
     listing_agent_first_name |-> lister.first,
     listing_agent_email |-> lister.email,
     listing_office_name |-> lister.office,
     selling_agent_name |-> seller.name,
     selling_agent_first_name |-> seller.first,
     selling_agent_email |-> seller.email,
     selling_office_name |-> seller.office]

\* The rows a file is made of: an ordinary sale with every pair of people on
\* it, or with Dee alone in either role, and a sale that Ann listed with every
\* date, place, price and days-on-market text in turn.
Rows ==
    {Row(T_date1, T_price2, T_place, T_dom7, l, s) : l \in People, s \in People}
    \cup {Row(T_date1, T_price2, T_place, T_dom7, Dee, NoOne),
          Row(T_date1, T_price2, T_place, T_dom7, NoOne, Dee)}
    \cup {Row(d, T_price2, T_place, T_dom7, Ann, NoOne) : d \in Dates}
    \cup {Row(T_date1, T_price2, pl, T_dom7, Ann, NoOne) : pl \in Places}
    \cup {Row(T_date1, pr, T_place, T_dom7, Ann, NoOne) : pr \in Prices}
    \cup {Row(T_date1, T_price2, T_place, dm, Ann, NoOne) : dm \in Doms}

----------------------------------------------------------------------------
\* State

VARIABLES
    consumed,                   \* the rows the reader has yielded so far
    pc,                         \* "reading", "raised", "returned", "done"
    agents,                     \* process_csv: email -> agent aggregate
    companies,                  \* process_csv: lowercased office -> aggregate
    market_transaction_count,
    market_total_volume,
    rows_processed,
    rows_skipped_no_date,
    raw_market_stats,           \* main: third result of process_csv
    agents_js,                  \* main: format_agents_for_js(agents)
    companies_js,               \* main: format_companies_for_js(companies)
    market_stats                \* main: calculate_market_stats(...)

vars == <<consumed, pc, agents, companies, market_transaction_count,
          market_total_volume, rows_processed, rows_skipped_no_date,
          raw_market_stats, agents_js, companies_js, market_stats>>

aggregates == <<agents, companies, market_transaction_count, market_total_volume>>

outputs == <<raw_market_stats, agents_js, companies_js, market_stats>>

NewAgent ==
    [name |-> <<>>, first_name |-> <<>>, email |-> <<>>, office |-> <<>>,
     transactions |-> 0, listings |-> 0, sales |-> 0,
     list_volume |-> 0, sale_volume |-> 0, total_volume |-> 0,
     prices |-> <<>>, dom_values |-> <<>>,
     cities |-> EmptyDict, zips |-> EmptyDict,
     transaction_details |-> <<>>]

NewCompany ==
    [name |-> <<>>, agents |-> {}, transactions |-> 0, listings |-> 0,
     sales |-> 0, total_volume |-> 0]

NoStats == [transaction_count |-> 0, total_volume |-> 0]

NoMarketStats ==
    [total |-> 0, avg_trans |-> <<0, 1>>, avg_vol |-> 0, avg_listings |-> <<0, 1>>,
     avg_dom |-> 0, market_transactions |-> 0, market_volume |-> 0]

Init ==
    /\ consumed = <<>>
    /\ pc = "reading"
    /\ agents = EmptyDict
    /\ companies = EmptyDict
    /\ market_transaction_count = 0
    /\ market_total_volume = 0
    /\ rows_processed = 0
    /\ rows_skipped_no_date = 0
    /\ raw_market_stats = NoStats
    /\ agents_js = <<>>
    /\ companies_js = <<>>
    /\ market_stats = NoMarketStats

----------------------------------------------------------------------------
\* The loop body of process_csv

\* The fields of a row after normalisation.
Sale(row) ==
    [close_date |-> parse_date(row.close_date),
     sold_price |-> clean_price(row.sold_price),
     city |-> Strip(row.city),
     zip_code |-> Strip(row.zip),
     dom |-> parse_dom(row.days_on_market)]

Lister(row) ==
    Person(Strip(row.listing_agent_name), Strip(row.listing_agent_first_name),
           Lower(Strip(row.listing_agent_email)), Strip(row.listing_office_name))

Seller(row) ==
    Person(Strip(row.selling_agent_name), Strip(row.selling_agent_first_name),
           Lower(Strip(row.selling_agent_email)), Strip(row.selling_office_name))

\* The normalised fields of every row, computed once.
SaleOf == [row \in Rows |-> Sale(row)]

ListerOf == [row \in Rows |-> Lister(row)]

SellerOf == [row \in Rows |-> Seller(row)]

\* if listing_agent and listing_email / if selling_agent and selling_email
Named(who) == who.name # <<>> /\ who.email # <<>>

\* cities[city] += 1 on a defaultdict(int), when the text is not empty
Counted(counts, text) ==
    IF text = <<>> THEN counts ELSE DictPut(counts, text, DictGet(counts, text, 0) + 1)

Detail(sale, ty) ==
    [dt |-> sale.close_date, c |-> sale.city, z |-> sale.zip_code,
     p |-> sale.sold_price, ty |-> ty]

\* listing_agent_update without the listings counter
listing_agent_update_no_listings(data, who, sale) ==
    [data EXCEPT
        !.name = who.name,
        !.first_name = who.first,
        !.email = who.email,
        !.office = who.office,
        !.transactions = @ + 1,
        !.list_volume = @ + sale.sold_price,
        !.total_volume = @ + sale.sold_price,
        !.prices = Append(@, sale.sold_price),
        !.dom_values = IF sale.dom # NoDom THEN Append(@, sale.dom) ELSE @,
        !.cities = Counted(@, sale.city),
        !.zips = Counted(@, sale.zip_code),
        !.transaction_details = Append(@, Detail(sale, <<"l">>))]

listing_agent_update(data, who, sale) ==
    [data EXCEPT
        !.name = who.name,
        !.first_name = who.first,
        !.email = who.email,
        !.office = who.office,
        !.transactions = @ + 1,
        !.listings = @ + 1,
        !.list_volume = @ + sale.sold_price,
        !.total_volume = @ + sale.sold_price,
        !.prices = Append(@, sale.sold_price),
        !.dom_values = IF sale.dom # NoDom THEN Append(@, sale.dom) ELSE @,
        !.cities = Counted(@, sale.city),
        !.zips = Counted(@, sale.zip_code),
        !.transaction_details = Append(@, Detail(sale, <<"l">>))]

\* selling_agent_update without the total volume
selling_agent_update_no_total(data, who, sale) ==
    [data EXCEPT
        !.name = who.name,
        !.first_name = who.first,
        !.email = who.email,
        !.office = who.office,
        !.transactions = @ + 1,
        !.sales = @ + 1,
        !.sale_volume = @ + sale.sold_price,
        !.prices = Append(@, sale.sold_price),
        !.dom_values = IF sale.dom # NoDom THEN Append(@, sale.dom) ELSE @,
        !.cities = Counted(@, sale.city),
        !.zips = Counted(@, sale.zip_code),
        !.transaction_details = Append(@, Detail(sale, <<"s">>))]

selling_agent_update(data, who, sale) ==
    [data EXCEPT
        !.name = who.name,
        !.first_name = who.first,
        !.email = who.email,
        !.office = who.office,
        !.transactions = @ + 1,
        !.sales = @ + 1,
        !.sale_volume = @ + sale.sold_price,
        !.total_volume = @ + sale.sold_price,
        !.prices = Append(@, sale.sold_price),
        !.dom_values = IF sale.dom # NoDom THEN Append(@, sale.dom) ELSE @,
        !.cities = Counted(@, sale.city),
        !.zips = Counted(@, sale.zip_code),
        !.transaction_details = Append(@, Detail(sale, <<"s">>))]

listing_company_update(data, who, sale) ==
    [data EXCEPT
        !.name = who.office,
        !.agents = @ \cup {who.email},
        !.transactions = @ + 1,
        !.listings = @ + 1,
        !.total_volume = @ + sale.sold_price]

selling_company_update(data, who, sale) ==
    [data EXCEPT
        !.name = who.office,
        !.agents = @ \cup {who.email},
        !.transactions = @ + 1,
        !.sales = @ + 1,
        !.total_volume = @ + sale.sold_price]

\* The agents mapping after the listing block and after the selling block.
AgentsAfterListing(ags, row) ==
    LET who == ListerOf[row]
    IN IF Named(who)
       THEN DictPut(ags, who.email,
                    listing_agent_update(DictGet(ags, who.email, NewAgent), who, SaleOf[row]))
       ELSE ags

AgentsAfterSelling(ags, row) ==
    LET who == SellerOf[row]
    IN IF Named(who)
       THEN DictPut(ags, who.email,
                    selling_agent_update(DictGet(ags, who.email, NewAgent), who, SaleOf[row]))
       ELSE ags

CompaniesAfterListing(cos, row) ==
    LET who == ListerOf[row]
        key == Lower(who.office)
    IN IF Named(who) /\ who.office # <<>>
       THEN DictPut(cos, key, listing_company_update(DictGet(cos, key, NewCompany), who, SaleOf[row]))
       ELSE cos

CompaniesAfterSelling(cos, row) ==
    LET who == SellerOf[row]
        key == Lower(who.office)
    IN IF Named(who) /\ who.office # <<>>
       THEN DictPut(cos, key, selling_company_update(DictGet(cos, key, NewCompany), who, SaleOf[row]))
       ELSE cos

CanRead == pc = "reading" /\ Len(consumed) < MaxRows

\* SkipEffect with the market counter placed before the date test
SkipEffect_counted ==
    /\ rows_skipped_no_date' = rows_skipped_no_date + 1
    /\ market_transaction_count' = market_transaction_count + 1
    /\ UNCHANGED <<rows_processed, agents, companies, market_total_volume>>

\* A row without a usable close date: counted and skipped.
SkipEffect ==
    /\ rows_skipped_no_date' = rows_skipped_no_date + 1
    /\ UNCHANGED <<rows_processed, aggregates>>

SkipRow(row) ==
    /\ CanRead
    /\ SaleOf[row].close_date = NoDate
    /\ consumed' = Append(consumed, row)
    /\ SkipEffect
    /\ UNCHANGED <<pc, outputs>>

\* A dated row whose price makes float() raise: the ValueError leaves
\* process_csv, after rows_processed was incremented and before any total is.
RaiseRow(row) ==
    /\ CanRead
    /\ SaleOf[row].close_date # NoDate
    /\ SaleOf[row].sold_price = ValueError
    /\ consumed' = Append(consumed, row)
    /\ rows_processed' = rows_processed + 1
    /\ pc' = "raised"
    /\ UNCHANGED <<rows_skipped_no_date, aggregates, outputs>>

FoldEffect(row) ==
    /\ rows_processed' = rows_processed + 1
    /\ market_transaction_count' = market_transaction_count + 1
    /\ market_total_volume' = market_total_volume + SaleOf[row].sold_price
    /\ agents' = AgentsAfterSelling(AgentsAfterListing(agents, row), row)
    /\ companies' = CompaniesAfterSelling(CompaniesAfterListing(companies, row), row)
    /\ UNCHANGED rows_skipped_no_date

FoldRow(row) ==
    /\ CanRead
    /\ SaleOf[row].close_date # NoDate
    /\ SaleOf[row].sold_price # ValueError
    /\ consumed' = Append(consumed, row)
    /\ FoldEffect(row)
    /\ UNCHANGED <<pc, outputs>>

\* The reader is exhausted: process_csv returns its three results.
EndOfFile ==
    /\ pc = "reading"
    /\ pc' = "returned"
    /\ raw_market_stats' = [transaction_count |-> market_transaction_count,
                            total_volume |-> market_total_volume]
    /\ UNCHANGED <<consumed, aggregates, rows_processed, rows_skipped_no_date,
                   agents_js, companies_js, market_stats>>

----------------------------------------------------------------------------
\* Formatter

\* How many cities and zips an agent record keeps.
TopN == 10

Min(a, b) == IF a < b THEN a ELSE b

\* int(sum(xs) / len(xs)) for non-negative integers, 0 for no values
IntMean(xs) == IF xs = <<>> THEN 0 ELSE Sum(xs) \div Len(xs)

\* round(num / den, 0): Python rounds a half to the even neighbour
RoundHalfEven(num, den) ==
    LET q == num \div den
        r == num % den
    IN IF 2 * r < den THEN q
       ELSE IF 2 * r > den THEN q + 1
       ELSE IF q % 2 = 0 THEN q ELSE q + 1

\* The md5 digest is not computed: the token stands for "the first eight hex
\* digits of md5 of this text".
generate_token(email) == [md5_8 |-> Lower(email)]

\* f"{tx['dt']}|{tx['c']}|{tx['z']}|{tx['ty']}"
TxKey(tx) == tx.dt \o <<"|">> \o tx.c \o <<"|">> \o tx.z \o <<"|">> \o tx.ty

\* key=lambda x: x['dt'], a str compared by code points
DateKey(tx) == [i \in 1..Len(tx.dt) |-> Ord(tx.dt[i])]

RECURSIVE FirstOfEachKey(_, _)
FirstOfEachKey(txs, seen) ==
    IF txs = <<>> THEN <<>>
    ELSE LET key == TxKey(txs[1])
         IN IF key \in seen THEN FirstOfEachKey(Tail(txs), seen)
            ELSE <<txs[1]>> \o FirstOfEachKey(Tail(txs), seen \cup {key})

unique_transactions(details) ==
    FirstOfEachKey(StableSort(details, [i \in 1..Len(details) |-> DateKey(details[i])]), {})

\* dict(sorted(counts.items(), key=lambda x: -x[1])[:10])
TopCounts(counts) ==
    LET items == DictItems(counts)
        sorted == StableSort(items, [i \in 1..Len(items) |-> <<0 - items[i][2]>>])
        top == SubSeq(sorted, 1, Min(TopN, Len(sorted)))
    IN [order |-> [i \in 1..Len(top) |-> top[i][1]],
        val |-> [k \in {top[i][1] : i \in 1..Len(top)} |-> counts.val[k]]]

agent_obj(data) ==
    [n |-> data.name,
     fn |-> data.first_name,
     e |-> data.email,
     o |-> data.office,
     t |-> data.transactions,
     l |-> data.listings,
     s |-> data.sales,
     lv |-> data.list_volume,
     sv |-> data.sale_volume,
     tv |-> data.total_volume,
     ap |-> IntMean(data.prices),
     asf |-> 0,
     ad |-> IntMean(data.dom_values),
     dc |-> Len(data.dom_values),
     c |-> TopCounts(data.cities),
     z |-> TopCounts(data.zips),
     tok |-> generate_token(data.email),
     d |-> unique_transactions(data.transaction_details)]

\* company_obj with a running count in place of the size of the set
company_obj_running_count(data) ==
    [n |-> data.name,
     t |-> data.transactions,
     l |-> data.listings,
     s |-> data.sales,
     tv |-> data.total_volume,
     a |-> data.transactions]

company_obj(data) ==
    [n |-> data.name,
     t |-> data.transactions,
     l |-> data.listings,
     s |-> data.sales,
     tv |-> data.total_volume,
     a |-> Cardinality(data.agents)]

HasTransactions(item) == item[2].transactions # 0

\* AgentSortKey without the tie-break
AgentSortKey_no_volume(x) == <<0 - x.t>>

\* key=lambda x: (-x['t'], -x['tv'])
AgentSortKey(x) == <<0 - x.t, 0 - x.tv>>

CompanySortKey(x) == <<0 - x.t, 0 - x.tv>>

format_agents_for_js(ags) ==
    LET kept == SelectSeq(DictItems(ags), HasTransactions)
        result == [i \in 1..Len(kept) |-> agent_obj(kept[i][2])]
    IN StableSort(result, [i \in 1..Len(result) |-> AgentSortKey(result[i])])

format_companies_for_js(cos) ==
    LET kept == SelectSeq(DictItems(cos), HasTransactions)
        result == [i \in 1..Len(kept) |-> company_obj(kept[i][2])]
    IN StableSort(result, [i \in 1..Len(result) |-> CompanySortKey(result[i])])

----------------------------------------------------------------------------
\* Market statistics

HasDomSample(a) == a.dc > 0

\* dom_agents without the filter
dom_agents_unfiltered(ags_js) == ags_js

dom_agents(ags_js) == SelectSeq(ags_js, HasDomSample)

SumT(ags_js) == Sum([i \in 1..Len(ags_js) |-> ags_js[i].t])

SumTv(ags_js) == Sum([i \in 1..Len(ags_js) |-> ags_js[i].tv])

SumL(ags_js) == Sum([i \in 1..Len(ags_js) |-> ags_js[i].l])

SumAd(ags_js) == Sum([i \in 1..Len(ags_js) |-> ags_js[i].ad])

\* sum(a['ad'] for a in dom_agents) / len(dom_agents), rounded by round(_, 0)
avg_dom_of(ags_js) ==
    LET doms == dom_agents(ags_js)
    IN IF doms = <<>> THEN 0 ELSE RoundHalfEven(SumAd(doms), Len(doms))

\* avg_trans and avg_listings are kept as the ratio <<sum, total>>: their
\* rounding to one decimal is not taken.
calculate_market_stats(ags_js, raw) ==
    LET total == Len(ags_js)
    IN IF total = 0 THEN NoMarketStats
       ELSE [total |-> total,
             avg_trans |-> <<SumT(ags_js), total>>,
             avg_vol |-> SumTv(ags_js) \div total,
             avg_listings |-> <<SumL(ags_js), total>>,
             avg_dom |-> avg_dom_of(ags_js),
             market_transactions |-> raw.transaction_count,
             market_volume |-> raw.total_volume]

\* main: the three calls that follow process_csv
Format ==
    /\ pc = "returned"
    /\ pc' = "done"
    /\ agents_js' = format_agents_for_js(agents)
    /\ companies_js' = format_companies_for_js(companies)
    /\ market_stats' = calculate_market_stats(format_agents_for_js(agents), raw_market_stats)
    /\ UNCHANGED <<consumed, aggregates, rows_processed, rows_skipped_no_date,
                   raw_market_stats>>

----------------------------------------------------------------------------

Next ==
    \/ \E row \in Rows : SkipRow(row)
    \/ \E row \in Rows : RaiseRow(row)
    \/ \E row \in Rows : FoldRow(row)
    \/ EndOfFile
    \/ Format

Spec == Init /\ [][Next]_vars

TypeOK ==
    /\ pc \in {"reading", "raised", "returned", "done"}
    /\ Len(consumed) <= MaxRows
    /\ rows_processed + rows_skipped_no_date = Len(consumed)

----------------------------------------------------------------------------
\* Properties

Accepted(row) == SaleOf[row].close_date # NoDate

Folded(row) == Accepted(row) /\ SaleOf[row].sold_price # ValueError

\* The step read one more row.
ReadsRow == Len(consumed') = Len(consumed) + 1

LastRead == consumed'[Len(consumed')]

AgentOf(ags, k) == DictGet(ags, k, NewAgent)

\* A row that names one mailbox in both roles.
SameAgentTwice(row) ==
    /\ Named(ListerOf[row])
    /\ Named(SellerOf[row])
    /\ ListerOf[row].email = SellerOf[row].email

\* C1: at every point of the fold, after each row, every agent aggregate has
\* transactions = listings + sales, also when a row names the same email as
\* listing and as selling agent.
C1_TransactionsSplit ==
    \A k \in DOMAIN agents.val :
        agents.val[k].transactions = agents.val[k].listings + agents.val[k].sales

C1_Witness ==
    \E i \in 1..Len(consumed) :
        /\ Folded(consumed[i])
        /\ SameAgentTwice(consumed[i])
        /\ agents.val[ListerOf[consumed[i]].email].listings >= 1
        /\ agents.val[ListerOf[consumed[i]].email].sales >= 1

\* C2: every agent aggregate has total_volume = list_volume + sale_volume,
\* and so has every emitted agent record (tv = lv + sv).
C2_VolumeSplit ==
    /\ \A k \in DOMAIN agents.val :
          agents.val[k].total_volume = agents.val[k].list_volume + agents.val[k].sale_volume
    /\ \A i \in 1..Len(agents_js) : agents_js[i].tv = agents_js[i].lv + agents_js[i].sv

C2_Witness ==
    /\ pc = "done"
    /\ \E i \in 1..Len(agents_js) : agents_js[i].lv > 0 /\ agents_js[i].sv > 0

\* The lowercased emails that the rows read so far show next to an office,
\* in either role: with any agent name, or only with a non-empty agent name.
EmailsSeenWith(office_key, named_only) ==
    {who.email : who \in
        {w \in {ListerOf[consumed[i]] : i \in {j \in 1..Len(consumed) : Accepted(consumed[j])}}
               \cup {SellerOf[consumed[i]] : i \in {j \in 1..Len(consumed) : Accepted(consumed[j])}} :
            /\ w.email # <<>>
            /\ w.office # <<>>
            /\ Lower(w.office) = office_key
            /\ (named_only => w.name # <<>>)}}

\* C3 as stated: a company's agent count is the number of distinct lowercased
\* emails that appear with the office in any accepted row, in either role.
C3_CountsEveryEmailSeen ==
    pc = "done" =>
        \A i \in 1..Len(companies_js) :
            companies_js[i].a = Cardinality(EmailsSeenWith(Lower(companies_js[i].n), FALSE))

\* C3 amended: a company's agent count is the number of distinct lowercased
\* emails that appear with the office in a role whose agent name and email
\* are both non-empty, in any accepted row; one agent seen many times with
\* the office counts once.
C3_CountsNamedEmails ==
    pc = "done" =>
        \A i \in 1..Len(companies_js) :
            companies_js[i].a = Cardinality(EmailsSeenWith(Lower(companies_js[i].n), TRUE))

C3_Witness ==
    /\ pc = "done"
    /\ \E i \in 1..Len(companies_js) : companies_js[i].t = 2 /\ companies_js[i].a = 1
    /\ \E j \in 1..Len(consumed) : Named(ListerOf[consumed[j]]) /\ ~Named(SellerOf[consumed[j]])

\* C4: the market transaction count is the number of accepted rows (rows with
\* a parseable close date), each counted once.
C4_MarketCountsAcceptedRows ==
    market_transaction_count =
        Cardinality({i \in 1..Len(consumed) : Accepted(consumed[i])})

\* C5: a row without a parseable close date changes no agent, no company and
\* no market total, adds exactly 1 to the rejected-row counter and leaves the
\* loop running; a row read after a rejection is folded in as usual.
C5_RejectedRowIsSkipped ==
    [][ReadsRow =>
          /\ ~Accepted(LastRead) =>
                /\ agents' = agents
                /\ companies' = companies
                /\ market_transaction_count' = market_transaction_count
                /\ market_total_volume' = market_total_volume
                /\ rows_skipped_no_date' = rows_skipped_no_date + 1
                /\ pc' = "reading"
          /\ (rows_skipped_no_date > 0 /\ Folded(LastRead)) =>
                /\ market_transaction_count' = market_transaction_count + 1
                /\ rows_skipped_no_date' = rows_skipped_no_date
                /\ agents' = AgentsAfterSelling(AgentsAfterListing(agents, LastRead), LastRead)
       ]_vars

C5_Witness ==
    /\ Len(consumed) = 2
    /\ ~Accepted(consumed[1])
    /\ Folded(consumed[2])
    /\ rows_skipped_no_date = 1
    /\ market_transaction_count = 1
    /\ agents.order # <<>>

\* C6: a row that names the same email as listing and as selling agent
\* raises that agent's transactions by 1 and total volume by one sale price.
C6_SameAgentCountedOnce ==
    [][(ReadsRow /\ Folded(LastRead) /\ SameAgentTwice(LastRead)) =>
          LET k == ListerOf[LastRead].email
          IN /\ AgentOf(agents', k).transactions = AgentOf(agents, k).transactions + 1
             /\ AgentOf(agents', k).total_volume =
                   AgentOf(agents, k).total_volume + SaleOf[LastRead].sold_price
       ]_vars

\* C7: the price of every row read normalises to a non-negative integer and
\* no exception leaves process_csv.
C7_PriceNeverRaises ==
    /\ pc # "raised"
    /\ \A i \in 1..Len(consumed) : clean_price(consumed[i].sold_price) >= 0

InOutputOrder(x, y) == x.t > y.t \/ (x.t = y.t /\ x.tv >= y.tv)

\* C8: in both output arrays, adjacent records are in descending order of
\* transaction count, ties in descending order of total volume.
C8_OutputSorted ==
    pc = "done" =>
        /\ \A i \in 1..(Len(agents_js) - 1) : InOutputOrder(agents_js[i], agents_js[i + 1])
        /\ \A i \in 1..(Len(companies_js) - 1) :
              InOutputOrder(companies_js[i], companies_js[i + 1])

C8_Witness ==
    /\ pc = "done"
    /\ Len(agents_js) >= 2
    /\ agents_js[1].t = agents_js[2].t
    /\ agents_js[1].tv > agents_js[2].tv
    /\ agents_js[1].e # agents.order[1]

\* C9: the market avg_dom has the sum of ad over the agents with dc > 0 as
\* numerator and their number as denominator; taking the agents without a
\* sample away, or adding them again, changes neither, and avg_dom is 0 when
\* no agent has a sample.
C9_AvgDomOverSampledAgents ==
    pc = "done" =>
        LET WithSample(a) == a.dc > 0
            NoSample(a) == a.dc = 0
            sampled == SelectSeq(agents_js, WithSample)
            others == SelectSeq(agents_js, NoSample)
        IN /\ SumAd(dom_agents(agents_js)) = SumAd(sampled)
           /\ Len(dom_agents(agents_js)) = Len(sampled)
           /\ market_stats.avg_dom =
                 (IF sampled = <<>> THEN 0
                  ELSE RoundHalfEven(SumAd(sampled), Len(sampled)))
           /\ calculate_market_stats(sampled, raw_market_stats).avg_dom = market_stats.avg_dom
           /\ calculate_market_stats(agents_js \o others, raw_market_stats).avg_dom
                 = market_stats.avg_dom

C9_Witness ==
    /\ pc = "done"
    /\ \E i \in 1..Len(agents_js) : agents_js[i].dc = 0
    /\ \E i \in 1..Len(agents_js) : agents_js[i].dc > 0
    /\ market_stats.avg_dom > 0

TxTuple(tx) == <<tx.dt, tx.c, tx.z, tx.ty>>

\* C10: every emitted detail list is in ascending order of date, has no two
\* entries with the same (date, city, zip, role), and has one entry for each
\* distinct (date, city, zip, role) among the agent's accumulated details.
C10_DetailsSortedAndUnique ==
    pc = "done" =>
        \A i \in 1..Len(agents_js) :
            LET d == agents_js[i].d
                details == agents.val[agents_js[i].e].transaction_details
            IN /\ \A m \in 1..(Len(d) - 1) : ~LexLess(DateKey(d[m + 1]), DateKey(d[m]))
               /\ \A m, n \in 1..Len(d) : m # n => TxTuple(d[m]) # TxTuple(d[n])
               /\ {TxTuple(d[m]) : m \in 1..Len(d)}
                     = {TxTuple(details[m]) : m \in 1..Len(details)}

====
